---- MODULE Spec2Model ----
(***************************************************************************)
(* Model of streamlit_app.py (Qupath_to_LMD): the validation and export    *)
(* pipeline behind the buttons of the page.                                *)
(*                                                                         *)
(* Representation.  A Python str that the code takes apart or rewrites     *)
(* (well labels, class names, sample names, metadata names) is a sequence  *)
(* of one-character strings, so that indexing, slicing, str(), strip() and *)
(* replace() are modelled by what they do.  Python None and the float NaN  *)
(* are the one-element sequences NoneVal and NaN, whose element is longer  *)
(* than one character and therefore differs from every str.  Annotation    *)
(* names, which the code only compares for equality, are plain strings.    *)
(* Coordinates are not modelled: a registered shape is identified by the   *)
(* row index of its feature.                                               *)
(***************************************************************************)
EXTENDS Integers, Sequences, FiniteSets, TLC

VARIABLES
    uploaded_file,             \* rows of the uploaded GeoJSON (st.file_uploader)
    list_of_calibpoint_names,  \* the three calibration names typed by the user
    samples_and_wells_input,   \* the text area with the samples and wells scheme
    geojson_file,              \* rows of the GeoJSON uploaded for colouring
    metadata_file,             \* rows of the uploaded metadata csv
    qc_file,                   \* what the last load_and_QC_geojson_file run did
    qc_wells,                  \* what the last load_and_QC_SamplesandWells run did
    collection,                \* what the last create_collection run did
    df_wp384,                  \* what the last sample_placement_384wp call returned
    labelled,                  \* what the last process_geojson_with_metadata run did
    files,                     \* the output files in the working directory
    widgets,                   \* each session's uploaded file (name, rows) and text
    uploaded_file_name,        \* uploaded_file.name in the script run under way
    cache,                     \* the entries st.cache_data holds, for all sessions
    call,                      \* the last call of a cached function
    disk,                      \* the working directory, by path
    offered                    \* what the last Step 3 run offered for download

vars == <<uploaded_file, list_of_calibpoint_names, samples_and_wells_input,
          geojson_file, metadata_file, qc_file, qc_wells, collection, df_wp384, labelled,
          files, widgets, uploaded_file_name, cache, call, disk, offered>>

-----------------------------------------------------------------------------
(* Sequences and Python values *)

Range(s) == {s[i] : i \in 1..Len(s)}

NoneVal == <<"None">>
NaN == <<"NaN">>
EmptyStr == <<>>

\* string.ascii_uppercase
ascii_uppercase ==
    <<"A","B","C","D","E","F","G","H","I","J","K","L","M",
      "N","O","P","Q","R","S","T","U","V","W","X","Y","Z">>

DigitChars == <<"0","1","2","3","4","5","6","7","8","9">>

RECURSIVE IntToStr(_)
\* str(n) of a non-negative int
IntToStr(n) ==
    IF n < 10 THEN <<DigitChars[n + 1]>>
    ELSE IntToStr(n \div 10) \o <<DigitChars[(n % 10) + 1]>>

RECURSIVE RemoveChar(_, _)
\* s.replace(c, "") for a one-character c
RemoveChar(s, c) ==
    IF s = <<>> THEN <<>>
    ELSE (IF Head(s) = c THEN <<>> ELSE <<Head(s)>>) \o RemoveChar(Tail(s), c)

Whitespace == {" ", "\n", "\t"}

RECURSIVE LStrip(_)
LStrip(s) == IF s # <<>> /\ Head(s) \in Whitespace THEN LStrip(Tail(s)) ELSE s

RECURSIVE RStrip(_)
RStrip(s) ==
    IF s # <<>> /\ s[Len(s)] \in Whitespace
    THEN RStrip(SubSeq(s, 1, Len(s) - 1)) ELSE s

\* str.strip()
Strip(s) == RStrip(LStrip(s))

-----------------------------------------------------------------------------
(* dict: a sequence of [key, val] entries with distinct keys, in insertion   *)
(* order                                                                     *)

DictKeys(d) == {d[i].key : i \in 1..Len(d)}
DictValues(d) == [i \in 1..Len(d) |-> d[i].val]
DictGet(d, k) == d[CHOOSE i \in 1..Len(d) : d[i].key = k].val

\* d[k] = v
DictSet(d, k, v) ==
    IF k \in DictKeys(d)
    THEN [i \in 1..Len(d) |-> IF d[i].key = k THEN [key |-> k, val |-> v] ELSE d[i]]
    ELSE Append(d, [key |-> k, val |-> v])

RECURSIVE DictFromPairs(_)
\* a dict display or dict(zip(..)): a later pair with the same key replaces the
\* value and keeps the position of the first
DictFromPairs(pairs) ==
    IF pairs = <<>> THEN <<>>
    ELSE LET n == Len(pairs)
         IN DictSet(DictFromPairs(SubSeq(pairs, 1, n - 1)), pairs[n].key, pairs[n].val)

-----------------------------------------------------------------------------
(* create_list_of_acceptable_wells *)

FirstAcceptableRow == 3    \* string.ascii_uppercase[2:14], 0-based slice start 2
LastAcceptableRow == 14
FirstAcceptableColumn == 3 \* range(3,22)
LastAcceptableColumn == 21

create_list_of_acceptable_wells ==
    {<<ascii_uppercase[r]>> \o IntToStr(c) :
        r \in FirstAcceptableRow..LastAcceptableRow,
        c \in FirstAcceptableColumn..LastAcceptableColumn}

-----------------------------------------------------------------------------
(* sample_placement_384wp.  A pandas DataFrame is its index, its columns,   *)
(* the rectangle of labels it was constructed over with its fill value, and  *)
(* the cells assigned since; a cell outside both is NaN.                     *)

PlateRows == 16
PlateColumns == 24

rows_A_P == SubSeq(ascii_uppercase, 1, PlateRows)
columns_1_24 == [i \in 1..PlateColumns |-> IntToStr(i)]

NoFrame ==
    [index |-> <<>>, columns |-> <<>>, fill |-> NaN, filled_rows |-> {},
     filled_columns |-> {}, assigned |-> <<>>]

\* pandas.DataFrame(fill, columns=columns, index=index)
DataFrame(fill, columns, index) ==
    [index |-> index, columns |-> columns, fill |-> fill,
     filled_rows |-> Range(index), filled_columns |-> Range(columns),
     assigned |-> <<>>]

\* the value of the cell at row r and column c, both labels of df
Cell(df, r, c) ==
    IF \E k \in 1..Len(df.assigned) : df.assigned[k].at = <<r, c>>
    THEN df.assigned[CHOOSE k \in 1..Len(df.assigned) :
                        df.assigned[k].at = <<r, c>>].value
    ELSE IF r \in df.filled_rows /\ c \in df.filled_columns THEN df.fill
    ELSE NaN

\* df.at[r, c] = v: sets the cell; a label that is missing is added to the
\* index or the columns (setting with enlargement), the new cells being NaN
at_set(df, r, c, v) ==
    [df EXCEPT
        !.index = IF r \in Range(@) THEN @ ELSE Append(@, r),
        !.columns = IF c \in Range(@) THEN @ ELSE Append(@, c),
        !.assigned =
            IF \E k \in 1..Len(@) : @[k].at = <<r, c>>
            THEN [k \in 1..Len(@) |->
                    IF @[k].at = <<r, c>> THEN [at |-> <<r, c>>, value |-> v]
                    ELSE @[k]]
            ELSE Append(@, [at |-> <<r, c>>, value |-> v])]

\* location[0]
WellRow(location) == location[1]
\* a plausible slip: location[1], the first character after the row letter
WellColumn_FirstDigit(location) ==
    IF Len(location) > 1 THEN <<location[2]>> ELSE <<>>

\* location[1:]
WellColumn(location) == Tail(location)

RECURSIVE place_samples(_, _, _)
\* the loop of sample_placement_384wp from entry i on; location[0] of an empty
\* str raises IndexError
place_samples(df, samples_and_wells, i) ==
    IF i > Len(samples_and_wells) THEN [status |-> "ok", df |-> df]
    ELSE LET location == samples_and_wells[i].val
         IN IF location = EmptyStr
            THEN [status |-> "IndexError", df |-> NoFrame]
            ELSE place_samples(
                    at_set(df, WellRow(location), WellColumn(location),
                           samples_and_wells[i].key),
                    samples_and_wells, i + 1)

sample_placement_384wp(samples_and_wells) ==
    place_samples(DataFrame(EmptyStr, columns_1_24, rows_A_P), samples_and_wells, 1)

-----------------------------------------------------------------------------
(* The GeoJSON file as geopandas.read_file returns it: one row per feature,  *)
(* row label = position.  A property no feature carries gives no column.     *)

NullName == "NaN"   \* the name of an annotation that was not named

Feature(name, kind, classification) ==
    [name |-> name, kind |-> kind, classification |-> classification]

\* classification values: missing, a dict with a name, a dict without one
NoClassification == [isna |-> TRUE, name |-> NoneVal]
Class(n) == [isna |-> FALSE, name |-> n]
ClassWithoutName == [isna |-> FALSE, name |-> NoneVal]

Rows(df) == [i \in 1..Len(df) |-> i]
HasNameColumn(df) == \E i \in 1..Len(df) : df[i].name # NullName
HasClassificationColumn(df) == \E i \in 1..Len(df) : ~df[i].classification.isna

\* lambda x: ast.literal_eval(x).get('name') if isinstance(x, str) else x.get('name')
classification_name(x) == x.name

\* df[df['geometry'].apply(lambda geom: not isinstance(geom, Point))]
DropPoints(df, rows) == SelectSeq(rows, LAMBDA i : df[i].kind # "Point")
\* df[df['classification'].notna()]
DropNaClassification(df, rows) ==
    SelectSeq(rows, LAMBDA i : ~df[i].classification.isna)
\* df[df.geometry.geom_type != 'MultiPolygon']
DropMultiPolygons(df, rows) == SelectSeq(rows, LAMBDA i : df[i].kind # "MultiPolygon")

\* extract_coordinates returns for these kinds and calls st.stop() for the rest
ExtractableKinds == {"Polygon", "LineString"}
CoordsExtractable(df, rows) ==
    \A j \in 1..Len(rows) : df[rows[j]].kind \in ExtractableKinds

\* df.loc[df['name'] == point_name, 'geometry'].values
CalibMatches(df, point_name) ==
    SelectSeq(Rows(df), LAMBDA i : df[i].name = point_name)

\* The comprehension that builds calib_np_array: .values[0] of an empty match
\* raises IndexError, .x of a geometry that is no Point raises AttributeError;
\* the names are taken in order and the first failure is the one raised.
CalibPointStatus(df, point_name) ==
    LET m == CalibMatches(df, point_name)
    IN IF m = <<>> THEN "IndexError"
       ELSE IF df[m[1]].kind # "Point" THEN "AttributeError"
       ELSE "ok"

calib_np_array(df, names) ==
    LET bad == {k \in 1..Len(names) : CalibPointStatus(df, names[k]) # "ok"}
    IN IF bad = {}
       THEN [status |-> "ok",
             points |-> [k \in 1..Len(names) |-> CalibMatches(df, names[k])[1]]]
       ELSE [status |-> CalibPointStatus(df, names[CHOOSE k \in bad :
                                                  \A l \in bad : k <= l]),
             points |-> <<>>]

-----------------------------------------------------------------------------
(* The samples and wells text: the pairs of the dict display the user typed, *)
(* or text that ast.literal_eval rejects                                     *)

MappingText(pairs) == [wellformed |-> TRUE, pairs |-> pairs]
MalformedText == [wellformed |-> FALSE, pairs |-> <<>>]
Pair(k, v) == [key |-> k, val |-> v]

\* .replace("\n", "").replace(" ", "") acts on every key and value of the text
RemoveSpaces(s) == RemoveChar(RemoveChar(s, "\n"), " ")

\* ast.literal_eval(samples_and_wells_processed)
ParseSamplesAndWells(text) ==
    DictFromPairs([i \in 1..Len(text.pairs) |->
        Pair(RemoveSpaces(text.pairs[i].key), RemoveSpaces(text.pairs[i].val))])

-----------------------------------------------------------------------------
(* create_collection *)

\* df[df['Name'].isin(samples_and_wells.keys())]
FilterMapped(df, rows, samples_and_wells) ==
    SelectSeq(rows, LAMBDA i :
        classification_name(df[i].classification) \in DictKeys(samples_and_wells))

\* a plausible slip: the well of the first entry for every shape
ShapeWell_First(samples_and_wells, name) == samples_and_wells[1].val

\* samples_and_wells[df.at[i, "Name"]]
ShapeWell(samples_and_wells, name) == DictGet(samples_and_wells, name)

\* the_collection.new_shape(df.at[i,'coords'], well = ...) for i in df.index
NewShapes(df, rows, samples_and_wells) ==
    [j \in 1..Len(rows) |->
        [feature |-> rows[j],
         well |-> ShapeWell(samples_and_wells,
                            classification_name(df[rows[j]].classification))]]

NoCollection ==
    [status |-> "none", step |-> "none", cleaned |-> <<>>, built |-> FALSE,
     calibration_points |-> <<>>, shapes |-> <<>>, samples_and_wells |-> <<>>,
     png |-> FALSE, xml |-> FALSE, csv |-> FALSE, plate |-> NoFrame]

\* The body of create_collection: the exception or st.stop() that ends it
\* (status), the statement group it ended in (step), and what it had done by
\* then.
create_collection(df, names, text) ==
    LET calib == calib_np_array(df, names)
        cleaned == DropMultiPolygons(df,
                      DropNaClassification(df, DropPoints(df, Rows(df))))
        samples_and_wells == ParseSamplesAndWells(text)
        kept == FilterMapped(df, cleaned, samples_and_wells)
        shapes == NewShapes(df, kept, samples_and_wells)
        plate == sample_placement_384wp(samples_and_wells)
        built == [NoCollection EXCEPT
                    !.cleaned = cleaned, !.built = TRUE,
                    !.calibration_points = calib.points, !.shapes = shapes,
                    !.samples_and_wells = samples_and_wells,
                    !.png = TRUE, !.xml = TRUE]
    IN IF ~HasNameColumn(df)
       THEN [NoCollection EXCEPT !.status = "KeyError", !.step = "calibration"]
       ELSE IF calib.status # "ok"
       THEN [NoCollection EXCEPT !.status = calib.status, !.step = "calibration"]
       ELSE IF ~HasClassificationColumn(df)
       THEN [NoCollection EXCEPT !.status = "KeyError", !.step = "cleaning"]
       ELSE IF ~CoordsExtractable(df, cleaned)
       THEN [NoCollection EXCEPT !.status = "stopped", !.step = "coords",
                                 !.cleaned = cleaned]
       ELSE IF ~text.wellformed
       THEN [NoCollection EXCEPT !.status = "SyntaxError", !.step = "mapping",
                                 !.cleaned = cleaned]
       ELSE IF plate.status # "ok"
       THEN [built EXCEPT !.status = plate.status, !.step = "placement"]
       ELSE [built EXCEPT !.status = "ok", !.step = "done",
                          !.csv = TRUE, !.plate = plate.df]

-----------------------------------------------------------------------------
(* load_and_QC_geojson_file *)

\* the names for which the loop of lines 164-168 logs its three errors
MissingCalibNames(df, names) ==
    {names[k] : k \in {l \in 1..Len(names) :
                          \A i \in 1..Len(df) : df[i].name # names[l]}}

\* df[df['geometry'].geom_type.isin(['Polygon', 'LineString'])].shape[0]
num_of_polygons_and_LineString(df) ==
    Cardinality({i \in 1..Len(df) : df[i].kind \in {"Polygon", "LineString"}})

\* intersect_fraction < 0.25 with n intersecting rows; a zero denominator
\* gives nan or inf, and the comparison is then False
LowIntersectFraction(n, total) == total > 0 /\ 4 * n < total

NoFileQC ==
    [status |-> "none", step |-> "none", logged_missing |-> {},
     low_fraction_warning |-> FALSE, nan_reported |-> 0,
     multipolygons_reported |-> <<>>, cleaned |-> <<>>]

\* The body of load_and_QC_geojson_file; n is the number of rows whose geometry
\* intersects the calibration triangle (coordinates are not modelled).
load_and_QC_geojson_file(df, names, n) ==
    LET calib == calib_np_array(df, names)
        logged == [NoFileQC EXCEPT !.logged_missing = MissingCalibNames(df, names)]
        measured == [logged EXCEPT !.low_fraction_warning =
                        LowIntersectFraction(n, num_of_polygons_and_LineString(df))]
        nopoints == DropPoints(df, Rows(df))
        classified == DropNaClassification(df, nopoints)
        cleaned == DropMultiPolygons(df, classified)
        reported == [measured EXCEPT
                        !.nan_reported = Len(nopoints) - Len(classified),
                        !.multipolygons_reported =
                            SelectSeq(classified,
                                      LAMBDA i : df[i].kind = "MultiPolygon"),
                        !.cleaned = cleaned]
    IN IF ~HasNameColumn(df)
       THEN [NoFileQC EXCEPT !.status = "stopped", !.step = "name"]
       ELSE IF calib.status # "ok"
       THEN [logged EXCEPT !.status = calib.status, !.step = "calibration"]
       ELSE IF ~HasClassificationColumn(df)
       THEN [measured EXCEPT !.status = "KeyError", !.step = "cleaning"]
       ELSE IF ~CoordsExtractable(df, cleaned)
       THEN [reported EXCEPT !.status = "stopped", !.step = "coords"]
       ELSE [reported EXCEPT !.status = "ok", !.step = "done"]

-----------------------------------------------------------------------------
(* load_and_QC_SamplesandWells *)

\* the value warning_limit must stay below for a per-well message (line 241)
\* and reach for the summary message (line 244)
WarningLimit == 10

RECURSIVE CheckWells(_, _, _)
\* the loop of lines 237-242 over the wells from position i on, warning_limit
\* being the counter so far: the wells that got their own message, and the
\* final counter
CheckWells(wells, i, warning_limit) ==
    IF i > Len(wells) THEN [warned |-> <<>>, warning_limit |-> warning_limit]
    ELSE IF wells[i] \notin create_list_of_acceptable_wells
         THEN LET rest == CheckWells(wells, i + 1, warning_limit + 1)
              IN IF warning_limit + 1 < WarningLimit
                 THEN [rest EXCEPT !.warned = <<wells[i]>> \o @]
                 ELSE rest
         ELSE CheckWells(wells, i + 1, warning_limit)

NoWellsQC ==
    [status |-> "none", step |-> "none", cleaned |-> <<>>,
     samples_and_wells |-> <<>>, well_warnings |-> <<>>, unacceptable |-> 0,
     summary_warnings |-> 0, name_warnings |-> {}]

\* The body of load_and_QC_SamplesandWells.
load_and_QC_SamplesandWells(df, names, text) ==
    LET unnamed == SelectSeq(Rows(df), LAMBDA i : df[i].name \notin Range(names))
        cleaned == DropMultiPolygons(df, DropNaClassification(df, unnamed))
        samples_and_wells == ParseSamplesAndWells(text)
        checked == CheckWells(DictValues(samples_and_wells), 1, 0)
        Names == {classification_name(df[cleaned[j]].classification) :
                    j \in 1..Len(cleaned)}
    IN IF ~HasNameColumn(df)
       THEN [NoWellsQC EXCEPT !.status = "KeyError", !.step = "name"]
       ELSE IF ~HasClassificationColumn(df)
       THEN [NoWellsQC EXCEPT !.status = "KeyError", !.step = "cleaning"]
       ELSE IF ~text.wellformed
       THEN [NoWellsQC EXCEPT !.status = "SyntaxError", !.step = "mapping",
                              !.cleaned = cleaned]
       ELSE [NoWellsQC EXCEPT
                !.status = "ok", !.step = "done", !.cleaned = cleaned,
                !.samples_and_wells = samples_and_wells,
                !.well_warnings = checked.warned,
                !.unacceptable = checked.warning_limit,
                !.summary_warnings =
                    IF checked.warning_limit >= WarningLimit THEN 1 ELSE 0,
                !.name_warnings = Names \ DictKeys(samples_and_wells)]

-----------------------------------------------------------------------------
(* QC_geojson_file, check_ids, process_geojson_with_metadata.  The metadata  *)
(* csv is its rows [name, value]: the cells of the name-key column and of    *)
(* the categorical column, the latter plain strings.                         *)

MetaRow(name, value) == [name |-> name, value |-> value]

\* the rows QC_geojson_file returns
QC_geojson_file(df) ==
    DropMultiPolygons(df, DropNaClassification(df, DropPoints(df, Rows(df))))

\* metadata[metadata_name_key].astype(str).str.strip(), assigned in place
StripNames(metadata) ==
    [i \in 1..Len(metadata) |-> [metadata[i] EXCEPT !.name = Strip(@)]]

\* set(shapes['classification_name'])
shape_names_set(df, shapes) ==
    {classification_name(df[shapes[j]].classification) : j \in 1..Len(shapes)}
\* set(metadata[metadata_name_key])
metadata_names_set(metadata) == {metadata[i].name : i \in 1..Len(metadata)}

\* a plausible slip: the two sets must be the same
IdsMatch_Equal(shape_names, metadata_names) == shape_names = metadata_names

\* shape_names_set.issubset(metadata_names_set)
IdsMatch(shape_names, metadata_names) == shape_names \subseteq metadata_names

\* what check_ids returns and what it logs when it returns False
check_ids(df, shapes, metadata) ==
    LET s == shape_names_set(df, shapes)
        m == metadata_names_set(metadata)
    IN IF IdsMatch(s, m)
       THEN [ok |-> TRUE, unmatched |-> {}, overlapping |-> {}]
       ELSE [ok |-> FALSE, unmatched |-> s \ m, overlapping |-> s \cap m]

RECURSIVE FirstWins(_)
\* a plausible slip: a mapping that keeps the first value given for a key
FirstWins(pairs) ==
    IF pairs = <<>> THEN <<>>
    ELSE LET n == Len(pairs)
             d == FirstWins(SubSeq(pairs, 1, n - 1))
         IN IF pairs[n].key \in DictKeys(d) THEN d ELSE Append(d, pairs[n])

ZipMetadata(metadata) ==
    [i \in 1..Len(metadata) |-> Pair(metadata[i].name, metadata[i].value)]

MetadataMapping_FirstWins(metadata) == FirstWins(ZipMetadata(metadata))

\* dict(zip(metadata[metadata_name_key], metadata[metadata_variable_key]))
MetadataMapping(metadata) == DictFromPairs(ZipMetadata(metadata))

default_colors ==
    <<(<<31, 119, 180>>), (<<255, 127, 14>>), (<<44, 160, 44>>),
      (<<214, 39, 40>>), (<<148, 103, 189>>)>>

\* the categorical values a csv can hold, in sorted order
SortedValues == <<"collected", "failed", "pending">>

\* metadata[metadata_variable_key].astype("category").cat.categories
categories(metadata) ==
    SelectSeq(SortedValues,
              LAMBDA v : \E i \in 1..Len(metadata) : metadata[i].value = v)

\* dict(zip(categories, itertools.cycle(default_colors)))[x]
color_dict(metadata, x) ==
    LET c == categories(metadata)
        k == CHOOSE j \in 1..Len(c) : c[j] = x
    IN default_colors[((k - 1) % Len(default_colors)) + 1]

NoLabelled ==
    [status |-> "none", step |-> "none", shapes |-> <<>>, joined |-> FALSE,
     unmatched |-> {}, overlapping |-> {}, rows |-> <<>>]

\* The body of process_geojson_with_metadata.
process_geojson_with_metadata(df, metadata_csv) ==
    LET shapes == QC_geojson_file(df)
        metadata == StripNames(metadata_csv)
        check == check_ids(df, shapes, metadata)
        mapping == MetadataMapping(metadata)
        rows == [j \in 1..Len(shapes) |->
                    LET n == classification_name(df[shapes[j]].classification)
                        x == DictGet(mapping, n)
                    IN [feature |-> shapes[j], name |-> n,
                        classification |->
                            [name |-> x, color |-> color_dict(metadata, x)]]]
    IN IF ~HasClassificationColumn(df)
       THEN [NoLabelled EXCEPT !.status = "KeyError", !.step = "cleaning"]
       ELSE IF ~check.ok
       THEN [NoLabelled EXCEPT !.status = "AssertionError", !.step = "check_ids",
                               !.shapes = shapes, !.unmatched = check.unmatched,
                               !.overlapping = check.overlapping]
       ELSE [NoLabelled EXCEPT !.status = "ok", !.step = "done",
                               !.shapes = shapes, !.joined = TRUE, !.rows = rows]

-----------------------------------------------------------------------------
(* Output files: whether the file exists and what was written to it *)

NoFile == [exists |-> FALSE, data |-> <<>>]
Written(data) == [exists |-> TRUE, data |-> data]
NoFiles == [png |-> NoFile, xml |-> NoFile, csv |-> NoFile, labelled |-> NoFile]

NotCalled == [status |-> "none", df |-> NoFrame]

-----------------------------------------------------------------------------
(* Bounds and input pools *)

MaxFeatures == 2    \* annotations in a file, after its calibration rows
MaxEntries == 2     \* entries of a samples and wells dict given to the plate layout
MaxWells == 11      \* entries of a samples and wells text given to the wells check
MaxMetaRows == 2    \* rows of a metadata csv

\* sequences over S of length at most n
RECURSIVE SeqsUpTo(_, _)
SeqsUpTo(S, n) ==
    IF n = 0 THEN {<<>>}
    ELSE LET shorter == SeqsUpTo(S, n - 1)
         IN shorter \cup {Append(q, x) : q \in shorter, x \in S}

a == <<"a">>
b == <<"b">>
a_space == <<"a", " ">>
space_a == <<" ", "a">>

C3 == <<"C", "3">>
D10 == <<"D", "1", "0">>
P24 == <<"P", "2", "4">>
ZZ99 == <<"Z", "Z", "9", "9">>
C25 == <<"C", "2", "5">>

CalibNames == <<"calib1", "calib2", "calib3">>
CalibPoint(name) == Feature(name, "Point", NoClassification)

\* the calibration rows a file starts with
CalibParts ==
    { <<CalibPoint("calib1"), CalibPoint("calib2"), CalibPoint("calib3")>>,
      <<CalibPoint("calib1"), CalibPoint("calib2")>>,
      <<CalibPoint("calib1"), CalibPoint("calib1"), CalibPoint("calib2"),
        CalibPoint("calib3")>>,
      <<Feature("calib1", "Polygon", Class(a)), CalibPoint("calib2"),
        CalibPoint("calib3")>>,
      <<>> }

AnnotationPool ==
    { Feature(NullName, "Polygon", Class(a)),
      Feature(NullName, "LineString", Class(b)),
      Feature(NullName, "Polygon", Class(a_space)),
      Feature(NullName, "Polygon", NoClassification),
      Feature(NullName, "Polygon", ClassWithoutName),
      Feature(NullName, "MultiPolygon", Class(a)),
      Feature(NullName, "MultiLineString", Class(a)),
      Feature(NullName, "Point", Class(b)),
      Feature("calib1", "LineString", Class(b)) }

Annotations == SeqsUpTo(AnnotationPool, MaxFeatures)
Files == {c \o f : c \in CalibParts, f \in Annotations}

MappingTexts ==
    { MalformedText,
      MappingText(<<>>),
      MappingText(<<Pair(a, C3)>>),
      MappingText(<<Pair(a, C3), Pair(b, D10)>>),
      MappingText(<<Pair(a, ZZ99), Pair(a_space, D10)>>),
      MappingText(<<Pair(a_space, <<"C", " ", "3">>)>>),
      MappingText(<<Pair(a, C3), Pair(b, EmptyStr)>>) }

-----------------------------------------------------------------------------
(* The handlers of the page *)

NumSessions == 2    \* browser sessions served by the one process
Sessions == 1..NumSessions

\* what a session has in its Step 1 and Step 2 widgets
Widget(name, file, text) == [name |-> name, file |-> file, text |-> text]
NoWidgets == [s \in Sessions |-> Widget(<<>>, <<>>, MappingText(<<>>))]

NoCall == [fn |-> "none", session |-> 0, hit |-> FALSE, owner |-> 0]

\* the content of an output file
Content(kind, calibration_points, shapes, plate) ==
    [kind |-> kind, calibration_points |-> calibration_points,
     shapes |-> shapes, plate |-> plate]
NoContent == Content("none", <<>>, <<>>, NoFrame)
NoOffer == [status |-> "none", xml |-> NoContent, csv |-> NoContent]

SessionVars == <<widgets, uploaded_file_name, cache, call, disk, offered>>

Untouched ==
    /\ qc_file = NoFileQC /\ qc_wells = NoWellsQC /\ collection = NoCollection
    /\ df_wp384 = NotCalled /\ labelled = NoLabelled /\ files = NoFiles
    /\ cache = {} /\ call = NoCall /\ disk = {} /\ offered = NoOffer

\* the specifications of one script run leave the session widgets aside
SingleRun == widgets = NoWidgets /\ uploaded_file_name = <<>>

Inputs == <<uploaded_file, list_of_calibpoint_names, samples_and_wells_input,
            geojson_file, metadata_file>>

\* "Load and check the geojson file"
Step1_load_and_QC_geojson_file ==
    /\ \E n \in 0..num_of_polygons_and_LineString(uploaded_file) :
          qc_file' = load_and_QC_geojson_file(uploaded_file,
                                              list_of_calibpoint_names, n)
    /\ UNCHANGED <<Inputs, SessionVars, qc_wells, collection, df_wp384, labelled, files>>

\* "Check the samples and wells"
Step2_load_and_QC_SamplesandWells ==
    /\ qc_wells' = load_and_QC_SamplesandWells(uploaded_file,
                        list_of_calibpoint_names, samples_and_wells_input)
    /\ UNCHANGED <<Inputs, SessionVars, qc_file, collection, df_wp384, labelled, files>>

\* create_collection as "Process geojson and create the contours" runs it: the
\* png and the xml are written before the plate layout is built, the csv after
Step3_create_collection ==
    LET r == create_collection(uploaded_file, list_of_calibpoint_names,
                               samples_and_wells_input)
    IN /\ collection' = r
       /\ files' = [files EXCEPT
                      !.png = IF r.png THEN Written(r.shapes) ELSE @,
                      !.xml = IF r.xml THEN Written(r.shapes) ELSE @,
                      !.csv = IF r.csv THEN Written(<<r.plate>>) ELSE @]
       /\ df_wp384' = IF r.built
                      THEN sample_placement_384wp(r.samples_and_wells)
                      ELSE df_wp384
       /\ UNCHANGED <<Inputs, SessionVars, qc_file, qc_wells, labelled>>

\* sample_placement_384wp on the dict the text evaluates to
Call_sample_placement_384wp ==
    /\ samples_and_wells_input.wellformed
    /\ df_wp384' =
          sample_placement_384wp(ParseSamplesAndWells(samples_and_wells_input))
    /\ UNCHANGED <<Inputs, SessionVars, qc_file, qc_wells, collection, labelled, files>>

\* "Process metadata and geojson, for labelled shapes"
Extra3_process_geojson_with_metadata ==
    LET r == process_geojson_with_metadata(geojson_file, metadata_file)
    IN /\ labelled' = r
       /\ files' = [files EXCEPT
                      !.labelled = IF r.status = "ok" THEN Written(r.rows) ELSE @]
       /\ UNCHANGED <<Inputs, SessionVars, qc_file, qc_wells, collection, df_wp384>>

-----------------------------------------------------------------------------
(* Spec: the samples and wells check and the export, on one file and text *)

Init ==
    /\ uploaded_file \in Files
    /\ list_of_calibpoint_names = CalibNames
    /\ samples_and_wells_input \in MappingTexts
    /\ geojson_file = <<>>
    /\ metadata_file = <<>>
    /\ Untouched
    /\ SingleRun

Next ==
    \/ Step2_load_and_QC_SamplesandWells
    \/ Step3_create_collection

Spec == Init /\ [][Next]_vars

(* SpecFileQC: the file check *)

InitFileQC ==
    /\ uploaded_file \in Files
    /\ list_of_calibpoint_names = CalibNames
    /\ samples_and_wells_input = MappingText(<<>>)
    /\ geojson_file = <<>>
    /\ metadata_file = <<>>
    /\ Untouched
    /\ SingleRun

NextFileQC == Step1_load_and_QC_geojson_file

SpecFileQC == InitFileQC /\ [][NextFileQC]_vars

(* SpecPlate: the plate layout of a samples and wells dict *)

SampleNames == {a, b}
PlateWells == {C3, D10, P24, <<"A", "1">>, ZZ99, C25, <<"C">>, EmptyStr}

PlateTexts ==
    {MappingText(q) :
        q \in SeqsUpTo({Pair(k, w) : k \in SampleNames, w \in PlateWells},
                       MaxEntries)}

InitPlate ==
    /\ uploaded_file = <<>>
    /\ list_of_calibpoint_names = CalibNames
    /\ samples_and_wells_input \in PlateTexts
    /\ geojson_file = <<>>
    /\ metadata_file = <<>>
    /\ Untouched
    /\ SingleRun

NextPlate == Call_sample_placement_384wp

SpecPlate == InitPlate /\ [][NextPlate]_vars

(* SpecWells: the samples and wells check on long texts *)

GoodFile ==
    <<CalibPoint("calib1"), CalibPoint("calib2"), CalibPoint("calib3"),
      Feature(NullName, "Polygon", Class(a)),
      Feature(NullName, "LineString", Class(b))>>

AcceptablePicks == {C3, <<"N", "2", "1">>}
UnacceptablePicks == {<<"B", "3">>, <<"C", "2", "2">>, ZZ99}

SampleKey(i) == <<"s">> \o IntToStr(i)

\* the text whose i-th entry maps sample i to wells[i]
WellsText(wells) ==
    MappingText([i \in 1..Len(wells) |-> Pair(SampleKey(i), wells[i])])

InitWells ==
    /\ uploaded_file = GoodFile
    /\ list_of_calibpoint_names = CalibNames
    /\ \E good \in AcceptablePicks, bad \in UnacceptablePicks :
          \E wells \in SeqsUpTo({good, bad}, MaxWells) :
             samples_and_wells_input = WellsText(wells)
    /\ geojson_file = <<>>
    /\ metadata_file = <<>>
    /\ Untouched
    /\ SingleRun

NextWells == Step2_load_and_QC_SamplesandWells

SpecWells == InitWells /\ [][NextWells]_vars

(* SpecMeta: the metadata labeller *)

MetaFeaturePool ==
    { Feature(NullName, "Polygon", Class(a)),
      Feature(NullName, "LineString", Class(b)),
      Feature(NullName, "Polygon", Class(a_space)),
      Feature(NullName, "Polygon", NoClassification),
      Feature(NullName, "Polygon", ClassWithoutName),
      Feature(NullName, "MultiPolygon", Class(b)),
      Feature(NullName, "Point", Class(b)) }

MetaRowPool ==
    { MetaRow(a, "collected"), MetaRow(a, "pending"), MetaRow(space_a, "pending"),
      MetaRow(space_a, "failed"), MetaRow(b, "collected") }

MetaTables == SeqsUpTo(MetaRowPool, MaxMetaRows)

InitMeta ==
    /\ uploaded_file = <<>>
    /\ list_of_calibpoint_names = CalibNames
    /\ samples_and_wells_input = MappingText(<<>>)
    /\ geojson_file \in SeqsUpTo(MetaFeaturePool, MaxFeatures)
    /\ metadata_file \in MetaTables
    /\ Untouched
    /\ SingleRun

NextMeta == Extra3_process_geojson_with_metadata

SpecMeta == InitMeta /\ [][NextMeta]_vars

-----------------------------------------------------------------------------
(* The cached functions as the buttons call them.  st.cache_data keeps one   *)
(* store per function for the whole process; its key is the hash of the      *)
(* arguments (for an uploaded file: its name and its bytes); a call that     *)
(* finds its key returns without running the body; a body that raises or     *)
(* stops caches nothing.  A file name is its sequence of tokens.             *)

\* name.replace(old, new), old being one token of the name
Replace(name, old, new) ==
    [i \in 1..Len(name) |-> IF name[i] = old THEN new ELSE name[i]]

\* f'./{uploaded_file.name.replace("geojson", "xml")}'
XmlPath(name) == Replace(name, "geojson", "xml")
\* f'./{uploaded_file.name.replace("geojson", "_384_wellplate.csv")}'
CsvPath(name) == Replace(name, "geojson", "_384_wellplate.csv")
\* "./TheCollection.png"
PngPath == <<"TheCollection", ".", "png">>

\* writing a file replaces what the path held
WriteFile(d, path, content) ==
    {f \in d : f.path # path} \cup {[path |-> path, content |-> content]}
FileExists(d, path) == \E f \in d : f.path = path
\* Path(path).read_text()
read_text(d, path) == (CHOOSE f \in d : f.path = path).content

\* the files a run of create_collection with result r leaves in directory d:
\* the png, then the xml, then the csv
WriteOutputs(d, name, r) ==
    LET d1 == IF r.png
              THEN WriteFile(d, PngPath,
                             Content("png", r.calibration_points, r.shapes, NoFrame))
              ELSE d
        d2 == IF r.xml
              THEN WriteFile(d1, XmlPath(name),
                             Content("xml", r.calibration_points, r.shapes, NoFrame))
              ELSE d1
    IN IF r.csv
       THEN WriteFile(d2, CsvPath(name), Content("csv", <<>>, <<>>, r.plate))
       ELSE d2

\* the key of a call; a function without the text parameter has the empty text
CacheKey(fn, name, file, names, text) ==
    [fn |-> fn, name |-> name, file |-> file, names |-> names, text |-> text]

Cached(key) == \E e \in cache : e.key = key
Owner(key) == (CHOOSE e \in cache : e.key = key).owner
Store(key, s, status) ==
    IF status = "ok" THEN cache \cup {[key |-> key, owner |-> s]} ELSE cache

\* the script run of session s starts from the widgets of s
BeginRun(s) ==
    /\ uploaded_file' = widgets[s].file
    /\ uploaded_file_name' = widgets[s].name
    /\ samples_and_wells_input' = widgets[s].text
    /\ UNCHANGED <<list_of_calibpoint_names, geojson_file, metadata_file, widgets>>

\* "Load and check the geojson file", pressed in session s
Step1_button(s) ==
    LET w == widgets[s]
        key == CacheKey("load_and_QC_geojson_file", w.name, w.file,
                        list_of_calibpoint_names, MappingText(<<>>))
    IN /\ BeginRun(s)
       /\ IF Cached(key)
          THEN /\ call' = [fn |-> key.fn, session |-> s, hit |-> TRUE,
                           owner |-> Owner(key)]
               /\ UNCHANGED <<qc_file, cache>>
          ELSE \E n \in 0..num_of_polygons_and_LineString(w.file) :
                 LET r == load_and_QC_geojson_file(w.file,
                                                   list_of_calibpoint_names, n)
                 IN /\ qc_file' = r
                    /\ cache' = Store(key, s, r.status)
                    /\ call' = [fn |-> key.fn, session |-> s, hit |-> FALSE,
                                owner |-> s]
       /\ UNCHANGED <<qc_wells, collection, df_wp384, labelled, files, disk,
                      offered>>

\* "Check the samples and wells", pressed in session s
Step2_button(s) ==
    LET w == widgets[s]
        key == CacheKey("load_and_QC_SamplesandWells", w.name, w.file,
                        list_of_calibpoint_names, w.text)
        r == load_and_QC_SamplesandWells(w.file, list_of_calibpoint_names, w.text)
    IN /\ BeginRun(s)
       /\ IF Cached(key)
          THEN /\ call' = [fn |-> key.fn, session |-> s, hit |-> TRUE,
                           owner |-> Owner(key)]
               /\ UNCHANGED <<qc_wells, cache>>
          ELSE /\ qc_wells' = r
               /\ cache' = Store(key, s, r.status)
               /\ call' = [fn |-> key.fn, session |-> s, hit |-> FALSE,
                           owner |-> s]
       /\ UNCHANGED <<qc_file, collection, df_wp384, labelled, files, disk,
                      offered>>

\* what lines 370-376 offer once create_collection has returned
Downloads(d, name) ==
    IF FileExists(d, XmlPath(name)) /\ FileExists(d, CsvPath(name))
    THEN [status |-> "success", xml |-> read_text(d, XmlPath(name)),
          csv |-> read_text(d, CsvPath(name))]
    ELSE [NoOffer EXCEPT !.status = "FileNotFoundError"]

\* "Process geojson and create the contours", pressed in session s
Step3_button(s) ==
    LET w == widgets[s]
        key == CacheKey("create_collection", w.name, w.file,
                        list_of_calibpoint_names, w.text)
        r == create_collection(w.file, list_of_calibpoint_names, w.text)
    IN /\ BeginRun(s)
       /\ IF Cached(key)
          THEN /\ call' = [fn |-> key.fn, session |-> s, hit |-> TRUE,
                           owner |-> Owner(key)]
               /\ offered' = Downloads(disk, w.name)
               /\ UNCHANGED <<collection, df_wp384, files, disk, cache>>
          ELSE /\ collection' = r
               /\ files' = [files EXCEPT
                              !.png = IF r.png THEN Written(r.shapes) ELSE @,
                              !.xml = IF r.xml THEN Written(r.shapes) ELSE @,
                              !.csv = IF r.csv THEN Written(<<r.plate>>) ELSE @]
               /\ df_wp384' = IF r.built
                              THEN sample_placement_384wp(r.samples_and_wells)
                              ELSE df_wp384
               /\ disk' = WriteOutputs(disk, w.name, r)
               /\ cache' = Store(key, s, r.status)
               /\ call' = [fn |-> key.fn, session |-> s, hit |-> FALSE,
                           owner |-> s]
               /\ offered' = IF r.status = "ok"
                             THEN Downloads(WriteOutputs(disk, w.name, r), w.name)
                             ELSE [NoOffer EXCEPT !.status = r.status]
       /\ UNCHANGED <<qc_file, qc_wells, labelled>>

x_geojson == <<"x", ".", "geojson">>

SmallFile ==
    <<CalibPoint("calib1"), CalibPoint("calib2"), CalibPoint("calib3"),
      Feature(NullName, "Polygon", Class(a))>>

IdleInputs ==
    /\ uploaded_file = <<>>
    /\ uploaded_file_name = <<>>
    /\ list_of_calibpoint_names = CalibNames
    /\ samples_and_wells_input = MappingText(<<>>)
    /\ geojson_file = <<>>
    /\ metadata_file = <<>>

(* SpecSessions: sessions with their own uploads press the three buttons *)

SessionWidgets ==
    {Widget(n, f, t) :
        n \in {x_geojson}, f \in {GoodFile, SmallFile},
        t \in {MappingText(<<Pair(a, C3)>>),
                MappingText(<<Pair(a, C3), Pair(b, D10)>>)}}

InitSessions ==
    /\ widgets \in [Sessions -> SessionWidgets]
    /\ IdleInputs
    /\ Untouched

NextSessions ==
    \E s \in Sessions :
        \/ Step1_button(s)
        \/ Step2_button(s)
        \/ Step3_button(s)

SpecSessions == InitSessions /\ [][NextSessions]_vars

(* SpecCache: one session changes its upload and text between Step 3 runs *)

CacheWidgets ==
    {Widget(x_geojson, f, t) :
        f \in {GoodFile, SmallFile},
        t \in {MappingText(<<Pair(a, C3)>>),
                MappingText(<<Pair(a, C3), Pair(b, D10)>>),
                MappingText(<<Pair(a, C3), Pair(b, EmptyStr)>>)}}

\* session s uploads another file or edits its text
SetWidgets(s) ==
    /\ \E w \in CacheWidgets :
          /\ w # widgets[s]
          /\ widgets' = [widgets EXCEPT ![s] = w]
    /\ UNCHANGED <<uploaded_file, list_of_calibpoint_names,
                   samples_and_wells_input, geojson_file, metadata_file,
                   qc_file, qc_wells, collection, df_wp384, labelled, files,
                   uploaded_file_name, cache, call, disk, offered>>

InitCache ==
    /\ \E w \in CacheWidgets : widgets = [NoWidgets EXCEPT ![1] = w]
    /\ IdleInputs
    /\ Untouched

NextCache ==
    \/ SetWidgets(1)
    \/ Step3_button(1)

SpecCache == InitCache /\ [][NextCache]_vars

-----------------------------------------------------------------------------
(* Properties *)

\* the rows that are no Point, carry a classification and are no MultiPolygon
Retained(df) ==
    {i \in 1..Len(df) : /\ df[i].kind # "Point"
                         /\ ~df[i].classification.isna
                         /\ df[i].kind # "MultiPolygon"}

ClassName(df, i) == df[i].classification.name

\* C1: whenever create_collection builds the collection, the registered shapes
\* are, each once, exactly the retained rows (no Point, classified, no
\* MultiPolygon) whose class name is a key of the parsed mapping, and the well
\* of each shape is the mapping's value for the class name of its row.
C1_RegisteredShapes ==
    collection.built =>
        LET df == uploaded_file
            mapping == ParseSamplesAndWells(samples_and_wells_input)
            shapes == collection.shapes
        IN /\ {shapes[j].feature : j \in 1..Len(shapes)}
                = {i \in Retained(df) : ClassName(df, i) \in DictKeys(mapping)}
           /\ \A j, k \in 1..Len(shapes) :
                 shapes[j].feature = shapes[k].feature => j = k
           /\ \A j \in 1..Len(shapes) :
                 \E e \in 1..Len(mapping) :
                    /\ mapping[e].key = ClassName(df, shapes[j].feature)
                    /\ mapping[e].val = shapes[j].well

\* a collection of a two-entry mapping with a shape in the well of the second
\* entry, and a retained row of an unmapped class left out
C1_Witness ==
    /\ collection.built
    /\ Len(collection.samples_and_wells) = 2
    /\ \E j \in 1..Len(collection.shapes) :
          collection.shapes[j].well = collection.samples_and_wells[2].val
    /\ \E i \in Retained(uploaded_file) :
          \A j \in 1..Len(collection.shapes) : collection.shapes[j].feature # i

\* the wells of rows C..N and columns 3..21
AcceptableWell(w) ==
    \E r \in {"C","D","E","F","G","H","I","J","K","L","M","N"}, c \in 3..21 :
        w = <<r>> \o IntToStr(c)

UnacceptableWells(wells) == SelectSeq(wells, LAMBDA w : ~AcceptableWell(w))

Min(x, y) == IF x <= y THEN x ELSE y

\* C2: when load_and_QC_SamplesandWells checks a mapping with k unacceptable
\* wells, the first 10 of them get a warning each, the others none, and the
\* summary warning is emitted once exactly when there are more than 10.
C2_WellWarnings ==
    qc_wells.status = "ok" =>
        LET bad == UnacceptableWells(DictValues(qc_wells.samples_and_wells))
            k == Len(bad)
        IN /\ qc_wells.well_warnings = SubSeq(bad, 1, Min(k, 10))
           /\ qc_wells.summary_warnings = (IF k > 10 THEN 1 ELSE 0)

ValidWell(w) ==
    \E r \in 1..16, c \in 1..24 : w = <<ascii_uppercase[r]>> \o IntToStr(c)

ValidDistinctWells(d) ==
    /\ \A i \in 1..Len(d) : ValidWell(d[i].val)
    /\ \A i, j \in 1..Len(d) : d[i].val = d[j].val => i = j

\* C3: for a mapping whose wells are valid (A..P, 1..24) and pairwise
\* distinct, sample_placement_384wp returns a grid of the 16 rows A..P and the
\* 24 columns 1..24 whose cell at each mapped well holds that sample's name,
\* every other cell being the empty string.
C3_PlateLayout ==
    LET d == ParseSamplesAndWells(samples_and_wells_input)
    IN (df_wp384.status # "none" /\ ValidDistinctWells(d)) =>
          /\ df_wp384.status = "ok"
          /\ df_wp384.df.index = SubSeq(ascii_uppercase, 1, 16)
          /\ df_wp384.df.columns = [c \in 1..24 |-> IntToStr(c)]
          /\ \A r \in 1..16, c \in 1..24 :
                LET w == <<ascii_uppercase[r]>> \o IntToStr(c)
                    here == {i \in 1..Len(d) : d[i].val = w}
                IN Cell(df_wp384.df, ascii_uppercase[r], IntToStr(c))
                     = IF here = {} THEN EmptyStr
                       ELSE d[CHOOSE i \in here : TRUE].key

\* a layout of two samples, one of them in a two-digit column
C3_Witness ==
    LET d == ParseSamplesAndWells(samples_and_wells_input)
    IN /\ df_wp384.status = "ok"
       /\ ValidDistinctWells(d)
       /\ Len(d) = 2
       /\ \E i \in 1..Len(d) : Len(d[i].val) = 3

\* C4: with a malformed well label in the mapping, sample_placement_384wp
\* fails and returns no grid, in particular none of more than 16 rows or 24
\* columns.
C4_InvalidWellLabel ==
    LET d == ParseSamplesAndWells(samples_and_wells_input)
    IN (df_wp384.status # "none" /\ \E i \in 1..Len(d) : ~ValidWell(d[i].val)) =>
          /\ df_wp384.status # "ok"
          /\ Len(df_wp384.df.index) <= 16
          /\ Len(df_wp384.df.columns) <= 24

\* C5: a run of create_collection that ends in an error has written no output
\* file (every file of the working directory is as it was before the run,
\* which in Spec is absent).
C5_NoPartialArtifacts ==
    collection.status \notin {"none", "ok"} => files = NoFiles

\* C6: when a requested calibration name is the name of no feature,
\* load_and_QC_geojson_file logs the error and goes on with the steps after
\* the calibration points instead of ending there.
C6_MissingCalibrationSoftFail ==
    LET df == uploaded_file
        missing == {n \in Range(list_of_calibpoint_names) :
                       \A i \in 1..Len(df) : df[i].name # n}
    IN (qc_file.status # "none" /\ HasNameColumn(df) /\ missing # {}) =>
          /\ qc_file.logged_missing = missing
          /\ qc_file.step # "calibration"

\* C7: create_collection builds a collection and writes files only when each
\* of the three calibration names is the name of exactly one feature, a Point.
C7_CalibrationResolvesUniquely ==
    (collection.built \/ files # NoFiles) =>
        \A k \in 1..Len(list_of_calibpoint_names) :
            LET m == {i \in 1..Len(uploaded_file) :
                        uploaded_file[i].name = list_of_calibpoint_names[k]}
            IN /\ Cardinality(m) = 1
               /\ \A i \in m : uploaded_file[i].kind = "Point"

CleanKinds(df, rows) ==
    \A j \in 1..Len(rows) :
        /\ df[rows[j]].classification.name # NoneVal
        /\ df[rows[j]].kind \in {"Polygon", "LineString"}

\* C8: the rows that load_and_QC_geojson_file, QC_geojson_file and
\* create_collection retain after their cleaning steps all have a class name
\* that is not null and a geometry kind that is Polygon or LineString.
C8_CleanedFeatures ==
    /\ CleanKinds(uploaded_file, qc_file.cleaned)
    /\ CleanKinds(uploaded_file, collection.cleaned)
    /\ CleanKinds(geojson_file, labelled.shapes)

StrippedNames(metadata) == {Strip(metadata[i].name) : i \in 1..Len(metadata)}
ShapeNames(df) == {ClassName(df, i) : i \in Retained(df)}

\* C9: once QC_geojson_file has returned the cleaned shapes,
\* process_geojson_with_metadata joins exactly when the class names of the
\* shapes are a subset of the stripped names of the metadata; otherwise it
\* fails, reports shape names minus metadata names as unmatched, and writes
\* no labelled file.
C9_JoinIffSubset ==
    labelled.step \in {"check_ids", "done"} =>
        LET S == ShapeNames(geojson_file)
            M == StrippedNames(metadata_file)
        IN /\ labelled.joined <=> S \subseteq M
           /\ labelled.joined => files.labelled.exists
           /\ ~(S \subseteq M) =>
                 /\ labelled.status = "AssertionError"
                 /\ labelled.unmatched = S \ M
                 /\ ~files.labelled.exists

\* a failed join with matched and unmatched names
C9_Witness ==
    /\ labelled.status = "AssertionError"
    /\ labelled.unmatched # {}
    /\ labelled.overlapping # {}

\* the rows of the metadata whose stripped name is n
RowsNamed(metadata, n) == {i \in 1..Len(metadata) : Strip(metadata[i].name) = n}
FirstOf(S) == CHOOSE i \in S : \A j \in S : i <= j
LastOf(S) == CHOOSE i \in S : \A j \in S : j <= i

\* C10 as stated: every labelled feature carries the categorical value of the
\* first metadata row of its class name.
C10_FirstOccurrenceWins ==
    labelled.joined =>
        \A j \in 1..Len(labelled.rows) :
            labelled.rows[j].classification.name =
                metadata_file[FirstOf(RowsNamed(metadata_file,
                                                labelled.rows[j].name))].value

\* C10 amended: every labelled feature carries the categorical value of the
\* last metadata row of its class name.
C10_LastOccurrenceWins ==
    labelled.joined =>
        \A j \in 1..Len(labelled.rows) :
            labelled.rows[j].classification.name =
                metadata_file[LastOf(RowsNamed(metadata_file,
                                               labelled.rows[j].name))].value

\* a labelled feature whose class name has two metadata rows with different
\* values
C10_Witness ==
    /\ labelled.joined
    /\ \E j \in 1..Len(labelled.rows) :
          \E i, k \in RowsNamed(metadata_file, labelled.rows[j].name) :
             metadata_file[i].value # metadata_file[k].value

\* the class names of the Polygon and LineString rows that create_collection
\* cleaned and did not register, their class being no key of the mapping
LeftOutOfExport ==
    LET df == uploaded_file
        registered == {collection.shapes[j].feature :
                          j \in 1..Len(collection.shapes)}
    IN {ClassName(df, i) :
          i \in {r \in Range(collection.cleaned) :
                    /\ df[r].kind \in {"Polygon", "LineString"}
                    /\ r \notin registered}}

\* C13: on the same file, calibration names and mapping, the class names for
\* which load_and_QC_SamplesandWells warns are exactly the class names of the
\* Polygon and LineString features that create_collection leaves out of the
\* export as unmapped.
C13_WarningsMatchExclusions ==
    (qc_wells.status = "ok" /\ collection.built) =>
        qc_wells.name_warnings = LeftOutOfExport
\* C11: a call of a cached function that is answered from the cache is
\* answered from an entry that a call of the same session stored.
C11_NoCrossSessionHit ==
    call.hit => call.owner = call.session

\* the xml and the csv that create_collection writes for the inputs of the
\* script run under way
OwnXml ==
    LET r == create_collection(uploaded_file, list_of_calibpoint_names,
                               samples_and_wells_input)
    IN Content("xml", r.calibration_points, r.shapes, NoFrame)
OwnCsv ==
    LET r == create_collection(uploaded_file, list_of_calibpoint_names,
                               samples_and_wells_input)
    IN Content("csv", <<>>, <<>>, r.plate)

\* C12: whenever a Step 3 run reports success, the xml and the csv it offers
\* are the ones generated from the file, calibration names and mapping of that
\* run.
C12_DownloadsAreOwn ==
    offered.status = "success" => (offered.xml = OwnXml /\ offered.csv = OwnCsv)
====
